---- MODULE Spec2Model ----
\* scikit-extremes: construction of the classic models (skextremes/models/classic.py,
\* _Base.__init__, GEV, Gumbel) and the percentile-interval bootstrap
\* (skextremes/utils.py, bootstrap_ci).
\*
\* Numbers that the program holds as floats and that decide control flow (ci, alpha)
\* are exact rationals <<numerator, denominator>> with a positive denominator.
\* Results of numeric library routines (the fitted parameters) are drawn from small
\* sets; array cells produced by the bootstrap are named by their position.
EXTENDS Integers, Sequences, FiniteSets, TLC

\* ---------------------------------------------------------------- bounds
MaxData == 3        \* len(data) ranges over 1..MaxData in the constructor model
MaxFrec == 2        \* frec ranges over 1..MaxFrec
MaxShape == 1       \* a fitted GEV shape ranges over -MaxShape..MaxShape
GridLen == 2        \* points of the return-period grid T kept by the model
MaxSamples == 24    \* n_samples ranges over 1..MaxSamples in bootstrap_ci
AlphaDen == 20      \* alpha ranges over k/AlphaDen, 0 < k < AlphaDen
MaxSeed == 1        \* seeds of the global random generator: 0..MaxSeed

\* ---------------------------------------------------------------- rationals
Num(r) == r[1]
Den(r) == r[2]
RatEq(a, b) == Num(a) * Den(b) = Num(b) * Den(a)
RatLt(a, b) == Num(a) * Den(b) < Num(b) * Den(a)
Zero == <<0, 1>>
One == <<1, 1>>
\* alpha / 2 and 1 - alpha / 2
Half(a) == <<Num(a), 2 * Den(a)>>
OneMinusHalf(a) == <<2 * Den(a) - Num(a), 2 * Den(a)>>

\* ---------------------------------------------------------------- variables
VARIABLES
    \* GEV(...) / Gumbel(...): _Base.__init__
    pc,         \* position in __init__
    args,       \* the call's arguments and the class constructed
    self,       \* the instance's attributes set so far (name -> value)
    raised,     \* the exception that left the constructor, "none" otherwise
    calls,      \* methods and library routines entered, in order
    warnflag,   \* fmin_bfgs's warnflag in the last genextreme.fit of _fit, -1 before
    caught,     \* the exception the constructor's except clause handled, or "none"
    \* Lieblein's coeffs(n, m)
    coeffs,     \* the locals of the running call (n, m, i, t, a, b, aip, bip)
    \* bootstrap_ci(data, statfunction, alpha, n_samples)
    bpc,        \* position in bootstrap_ci
    bargs,      \* the call's arguments
    rng,        \* state of numpy's global random generator
    stat,       \* the replicate ensemble, one row per replicate
    nvals,      \* the two percentile indices
    warned,     \* warnings emitted, in order
    bresult,    \* the returned array (rows: lower, upper)
    seed,       \* the generator state np.random.seed set before the call
    \* the caller's side
    sample,     \* the elements of the array the caller passed as data, as the caller reads them
    pair        \* two calls of bootstrap_ci in flight at once (their locals)

ctor_vars == <<pc, args, self, raised, calls, warnflag, caught>>
boot_vars == <<bpc, bargs, rng, stat, nvals, warned, bresult>>
vars == <<pc, args, self, raised, calls, warnflag, caught, coeffs,
          bpc, bargs, rng, stat, nvals, warned, bresult, seed, sample, pair>>

\* ================================================================ bootstrap_ci
\* Variant: truncation instead of rounding.
RoundDown(p, q) == p \div q
\* numpy.round: round half to even, of the rational p / q with p >= 0, q > 0.
RoundHalfEven(p, q) ==
    LET fl == p \div q
        r == p % q
    IN  IF 2 * r < q THEN fl
        ELSE IF 2 * r > q THEN fl + 1
        ELSE IF fl % 2 = 0 THEN fl ELSE fl + 1

\* alphas = [alpha / 2, 1 - alpha / 2]
Alphas(alpha) == <<Half(alpha), OneMinusHalf(alpha)>>

\* nvals = round((n_samples - 1) * avals).astype('int')
Nvals(alpha, n_samples) ==
    LET avals == Alphas(alpha)
    IN  [k \in 1..2 |-> RoundHalfEven((n_samples - 1) * Num(avals[k]), Den(avals[k]))]

\* numpy.random's global generator, as a deterministic stream: a full-period
\* linear congruential generator over 0..63 stands for the Mersenne Twister.
RngNext(s) == (21 * s + 11) % 64
RECURSIVE RngAt(_, _)
RngAt(s, k) == IF k = 0 THEN s ELSE RngAt(RngNext(s), k - 1)

\* randint(data.shape[0], size=(data.shape[0],)): N draws from 0..N-1, from state s.
Randint(s, N) == [j \in 1..N |-> (RngAt(s, j) \div 8) % N]

\* x[indexes] (indexes are 0-based)
Take(x, indexes) == [j \in 1..Len(indexes) |-> x[indexes[j] + 1]]

RECURSIVE SeqSum(_)
SeqSum(x) == IF x = <<>> THEN 0 ELSE Head(x) + SeqSum(Tail(x))
SeqMin(x) == CHOOSE v \in {x[j] : j \in 1..Len(x)} : \A j \in 1..Len(x) : v <= x[j]
SeqMax(x) == CHOOSE v \in {x[j] : j \in 1..Len(x)} : \A j \in 1..Len(x) : v >= x[j]

\* The statistics the model passes as statfunction. A scalar statistic is a row of
\* one component; "minmax" and "sumneg" are vector-valued.
StatFunctions == {"sum", "minmax", "sumneg"}
Apply(statfunction, x) ==
    CASE statfunction = "sum"    -> <<SeqSum(x)>>
      [] statfunction = "minmax" -> <<SeqMin(x), SeqMax(x)>>
      [] statfunction = "sumneg" -> <<SeqSum(x), 0 - SeqSum(x)>>

\* ndarray.sort of one column: ascending (insertion sort).
RECURSIVE Insert(_, _)
Insert(v, sorted) ==
    IF sorted = <<>> THEN <<v>>
    ELSE IF v <= Head(sorted) THEN <<v>> \o sorted
    ELSE <<Head(sorted)>> \o Insert(v, Tail(sorted))
RECURSIVE SortColumn(_)
SortColumn(x) == IF x = <<>> THEN <<>> ELSE Insert(Head(x), SortColumn(Tail(x)))

Column(a, c) == [i \in 1..Len(a) |-> a[i][c]]
Width(a) == IF a = <<>> THEN 0 ELSE Len(a[1])

\* Variant: the ensemble left in replicate order.
Unsorted(a) == a
\* stat.sort(axis=0): every column is sorted on its own.
SortAxis0(a) ==
    LET cols == [c \in 1..Width(a) |-> SortColumn(Column(a, c))]
    IN  [i \in 1..Len(a) |-> [c \in 1..Width(a) |-> cols[c][i]]]

\* The "top 10" margin of the milder warning.
Top == 10

\* Variant: an index equal to the margin counts as within it.
WarningKindInclusive(nv, n_samples) ==
    IF (\E k \in 1..2 : nv[k] = 0) \/ (\E k \in 1..2 : nv[k] = n_samples - 1)
    THEN "extremal"
    ELSE IF (\E k \in 1..2 : nv[k] <= Top) \/ (\E k \in 1..2 : nv[k] >= n_samples - Top)
    THEN "top10"
    ELSE "none"
\* The branch of the warning taken for the indices nv and n_samples replicates.
WarningKind(nv, n_samples) ==
    IF (\E k \in 1..2 : nv[k] = 0) \/ (\E k \in 1..2 : nv[k] = n_samples - 1)
    THEN "extremal"
    ELSE IF (\E k \in 1..2 : nv[k] < Top) \/ (\E k \in 1..2 : nv[k] >= n_samples - Top)
    THEN "top10"
    ELSE "none"

\* Variant: a filter that turns the warning into an exception.
FilterError == "error"
\* warnings.simplefilter('always', InstabilityWarning), set when utils is imported.
WarningsFilter == "always"

\* stat[nvals]: the rows of the sorted ensemble at the two indices (0-based).
Rows(a, nv) == [k \in 1..2 |-> a[nv[k] + 1]]

\* ------------------------------------------------ the caller's array
\* What a routine leaves in the array it is handed (arg) next to what it returns
\* (out). np.array(a) and np.sort(a) build a new array.
NpArray(a) == [out |-> a, arg |-> a]
NpSort(a) == [out |-> SortColumn(a), arg |-> a]
\* lmoments3's lmom_ratios, which every lmom_fit(data) runs on the sample:
\* x = np.asarray(x, dtype = np.float64); x.sort(). asarray returns a float64
\* array as it is, and ndarray.sort() sorts in place.
LmomRatios(a) == [out |-> "ratios", arg |-> SortColumn(a)]
\* The elements of a sample of n observations (neither ascending nor descending
\* from three observations on).
SampleOf(n) == [i \in 1..n |-> IF i % 2 = 1 THEN i + 1 ELSE i - 1]

\* No pair of calls is in flight.
PairIdle == pair = <<>>

\* ------------------------------------------------ inputs of bootstrap_ci
AlphaValues == {<<k, AlphaDen>> : k \in 1..(AlphaDen - 1)}
Datasets == {<<1>>, <<0, 2>>, <<3, 0, 1>>}
BootArgs ==
    [data : Datasets, statfunction : StatFunctions, alpha : AlphaValues,
     n_samples : 1..MaxSamples]

\* No call of coeffs is running.
CoeffsIdle == coeffs = <<>>

CtorIdle ==
    /\ pc = "idle"
    /\ args = <<>>
    /\ self = <<>>
    /\ raised = "none"
    /\ calls = <<>>
    /\ warnflag = 0 - 1
    /\ caught = "none"

BootInit ==
    /\ CtorIdle
    /\ CoeffsIdle
    /\ bpc = "resample"
    /\ bargs \in BootArgs
    /\ rng \in 0..MaxSeed
    /\ seed = rng
    /\ sample = bargs.data
    /\ PairIdle
    /\ stat = <<>>
    /\ nvals = <<>>
    /\ warned = <<>>
    /\ bresult = <<>>

\* Variant: a turn that draws from the generator without advancing it.
ResampleStale ==
    /\ bpc = "resample"
    /\ Len(stat) < bargs.n_samples
    /\ stat' = Append(stat, Apply(bargs.statfunction,
                                  Take(sample, Randint(rng, Len(sample)))))
    /\ UNCHANGED <<bpc, bargs, rng, nvals, warned, bresult>>
    /\ UNCHANGED ctor_vars
    /\ UNCHANGED <<coeffs, seed, sample, pair>>

\* One turn of the comprehension over bootstrap_indexes: draw the indexes, apply
\* statfunction to the resample.
Resample ==
    /\ bpc = "resample"
    /\ Len(stat) < bargs.n_samples
    /\ LET data == NpArray(sample)
           N == Len(data.out)
           indexes == Randint(rng, N)
       IN  /\ stat' = Append(stat, Apply(bargs.statfunction, Take(data.out, indexes)))
           /\ rng' = RngAt(rng, N)
           /\ sample' = data.arg
    /\ UNCHANGED <<bpc, bargs, nvals, warned, bresult>>
    /\ UNCHANGED ctor_vars
    /\ UNCHANGED coeffs
    /\ UNCHANGED <<seed, pair>>

\* stat.sort(axis=0), once the generator is exhausted.
Sort ==
    /\ bpc = "resample"
    /\ Len(stat) = bargs.n_samples
    /\ stat' = SortAxis0(stat)
    /\ bpc' = "index"
    /\ UNCHANGED <<bargs, rng, nvals, warned, bresult>>
    /\ UNCHANGED ctor_vars
    /\ UNCHANGED coeffs
    /\ UNCHANGED <<sample, seed, pair>>

\* nvals = round((n_samples - 1) * avals)
Index ==
    /\ bpc = "index"
    /\ nvals' = Nvals(bargs.alpha, bargs.n_samples)
    /\ bpc' = "warn"
    /\ UNCHANGED <<bargs, rng, stat, warned, bresult>>
    /\ UNCHANGED ctor_vars
    /\ UNCHANGED coeffs
    /\ UNCHANGED <<sample, seed, pair>>

\* The if / elif over nvals; warnings.warn raises under an "error" filter and
\* records the warning otherwise.
Warn ==
    /\ bpc = "warn"
    /\ LET kind == WarningKind(nvals, bargs.n_samples)
       IN  IF kind = "none"
           THEN /\ bpc' = "return"
                /\ warned' = warned
           ELSE IF WarningsFilter = "error"
           THEN /\ bpc' = "raised"
                /\ warned' = warned
           ELSE /\ bpc' = "return"
                /\ warned' = Append(warned, kind)
    /\ UNCHANGED <<bargs, rng, stat, nvals, bresult>>
    /\ UNCHANGED ctor_vars
    /\ UNCHANGED coeffs
    /\ UNCHANGED <<sample, seed, pair>>

\* return stat[nvals]  (nvals.ndim == 1 for a scalar alpha)
Return ==
    /\ bpc = "return"
    /\ bresult' = Rows(stat, nvals)
    /\ bpc' = "done"
    /\ UNCHANGED <<bargs, rng, stat, nvals, warned>>
    /\ UNCHANGED ctor_vars
    /\ UNCHANGED coeffs
    /\ UNCHANGED <<sample, seed, pair>>

BootNext == Resample \/ Sort \/ Index \/ Warn \/ Return
SpecBoot == BootInit /\ [][BootNext]_vars

\* ------------------------------------------------ bootstrap_ci as a function
\* The rows of stat a call computes from the generator state s: k turns of the
\* comprehension over bootstrap_indexes, each drawing len(data) numbers.
RECURSIVE Ensemble(_, _, _, _)
Ensemble(s, data, statfunction, k) ==
    IF k = 0 THEN <<>>
    ELSE <<Apply(statfunction, Take(data, Randint(s, Len(data))))>>
             \o Ensemble(RngAt(s, Len(data)), data, statfunction, k - 1)
\* What the call a returns when it is the only reader of the generator, from the
\* state s on.
BootstrapCi(s, a) ==
    Rows(SortAxis0(Ensemble(s, a.data, a.statfunction, a.n_samples)),
         Nvals(a.alpha, a.n_samples))

\* ------------------------------------------------ two calls of bootstrap_ci at once
\* Two threads, each in its own call on its own sample. Every call reads
\* _randint = np.random.randint, the module-level generator: rng is the one
\* generator of the process. stat, nvals and the result are locals of each call.
MaxPairSamples == 2
PairArgs ==
    {a \in BootArgs : a.alpha = <<1, AlphaDen>> /\ a.n_samples <= MaxPairSamples}
PairInit ==
    /\ CtorIdle
    /\ CoeffsIdle
    /\ bpc = "idle"
    /\ bargs = <<>>
    /\ stat = <<>>
    /\ nvals = <<>>
    /\ warned = <<>>
    /\ bresult = <<>>
    /\ rng \in 0..MaxSeed
    /\ seed = rng
    /\ sample = <<>>
    /\ \E a1 \in PairArgs : \E a2 \in PairArgs :
           /\ a1.data # a2.data
           /\ pair = [p \in 1..2 |->
                         [args |-> IF p = 1 THEN a1 ELSE a2, stat |-> <<>>,
                          pc |-> "resample", result |-> <<>>]]

\* One turn of the comprehension in the call of thread p.
PairResample(p) ==
    /\ pair # <<>>
    /\ pair[p].pc = "resample"
    /\ Len(pair[p].stat) < pair[p].args.n_samples
    /\ LET data == pair[p].args.data
           N == Len(data)
           indexes == Randint(rng, N)
       IN  /\ pair' = [pair EXCEPT ![p].stat =
                           Append(@, Apply(pair[p].args.statfunction, Take(data, indexes)))]
           /\ rng' = RngAt(rng, N)
    /\ UNCHANGED <<bpc, bargs, stat, nvals, warned, bresult>>
    /\ UNCHANGED ctor_vars
    /\ UNCHANGED <<coeffs, seed, sample>>

\* The rest of the call of thread p: the sort, the indices, the warning (the
\* filter is "always": it is recorded) and the return.
PairReturn(p) ==
    /\ pair # <<>>
    /\ pair[p].pc = "resample"
    /\ Len(pair[p].stat) = pair[p].args.n_samples
    /\ LET nv == Nvals(pair[p].args.alpha, pair[p].args.n_samples)
           kind == WarningKind(nv, pair[p].args.n_samples)
       IN  /\ pair' = [pair EXCEPT ![p].stat = SortAxis0(@),
                                   ![p].result = Rows(SortAxis0(pair[p].stat), nv),
                                   ![p].pc = "done"]
           /\ warned' = IF kind = "none" THEN warned ELSE Append(warned, kind)
    /\ UNCHANGED <<bpc, bargs, rng, stat, nvals, bresult>>
    /\ UNCHANGED ctor_vars
    /\ UNCHANGED <<coeffs, seed, sample>>

PairNext == \E p \in 1..2 : PairResample(p) \/ PairReturn(p)
SpecPair == PairInit /\ [][PairNext]_vars

\* ================================================================ _Base.__init__
\* obj.name = val
SetAttr(obj, name, val) ==
    [k \in (DOMAIN obj) \cup {name} |-> IF k = name THEN val ELSE obj[k]]
Has(name) == name \in DOMAIN self
Called(fn) == \E i \in 1..Len(calls) : calls[i] = fn

\* The names the model passes as fit_method ("pwm" is not a supported one).
FitMethodArgs == {"mle", "mom", "lmoments", "pwm"}
\* Variant: every name passes the check.
ValidFitMethodsAny == FitMethodArgs
\* fit_method in ['mle', 'mom', 'lmoments']
ValidFitMethods == {"mle", "mom", "lmoments"}

\* ci == 0 or 0 < ci < 1
CiInRange(ci) == RatEq(ci, Zero) \/ (RatLt(Zero, ci) /\ RatLt(ci, One))

\* Variant: delta accepted whatever the fit method.
AcceptedPairAnyDelta(fit_method, ci_method) ==
    /\ ci_method # "None"
    /\ ci_method \in {"delta", "bootstrap"}
\* The three branches that accept (fit_method, ci_method); None is falsy.
AcceptedPair(fit_method, ci_method) ==
    /\ ci_method # "None"
    /\ \/ (fit_method = "mle" /\ ci_method \in {"delta", "bootstrap"})
       \/ (fit_method = "lmoments" /\ ci_method \in {"bootstrap"})
       \/ (fit_method = "mom" /\ ci_method \in {"bootstrap"})

\* Values a fitted parameter takes in the model.
Shapes == (0 - MaxShape)..MaxShape
Locs == {3}
Scales == {1, 2}

\* GEV._fit: the library routines run for each fit method, in order, and the
\* parameters they may return.
GEVRoutines(fit_method) ==
    CASE fit_method = "mle"      -> <<"gev.lmom_fit", "genextreme.fit", "fmin_bfgs">>
      [] fit_method = "lmoments" -> <<"gev.lmom_fit">>
      [] fit_method = "mom"      -> <<"gev_momfit">>
      [] OTHER                   -> <<>>
GEVParams(fit_method) ==
    [shape : Shapes, location : Locs, scale : Scales]

\* Gumbel._fit: the same, with the shape set to 0 (gum_momfit returns 0 first).
GumbelRoutines(fit_method) ==
    CASE fit_method = "mle"      -> <<"gumbel_r.fit">>
      [] fit_method = "lmoments" -> <<"gum.lmom_fit">>
      [] fit_method = "mom"      -> <<"gum_momfit">>
      [] OTHER                   -> <<>>
\* Variant: a fitted shape.
GumbelParamsFree(fit_method) ==
    [shape : Shapes, location : Locs, scale : Scales]
GumbelParams(fit_method) ==
    [shape : {0}, location : Locs, scale : Scales]

\* genextreme.fit(..., optimizer = fmin_bfgs) calls the optimizer with disp = 0 and
\* keeps the point it returns: the optimizer's warnflag (0 converged, 1 iteration
\* limit reached, 2 gradient or function not changing) is dropped, no branch of
\* fit or of _fit reads it. The other fits do not run fmin_bfgs.
GEVWarnflags(fit_method) == IF fit_method = "mle" THEN {0, 1, 2} ELSE {0 - 1}
Warnflags(cls, fit_method) == IF cls = "GEV" THEN GEVWarnflags(fit_method) ELSE {0 - 1}

Routines(cls, fit_method) ==
    IF cls = "GEV" THEN GEVRoutines(fit_method) ELSE GumbelRoutines(fit_method)
Params(cls, fit_method) ==
    IF cls = "GEV" THEN GEVParams(fit_method) ELSE GumbelParams(fit_method)

\* Variant: the frozen distribution given the negated shape.
FrozenNegated(cls, params) ==
    [dist |-> IF cls = "GEV" THEN "genextreme" ELSE "gumbel_r",
     c |-> 0 - params.shape, loc |-> params.location, scale |-> params.scale]
\* The frozen distribution built at the end of _fit.
Frozen(cls, params) ==
    IF cls = "GEV"
    THEN [dist |-> "genextreme", c |-> params.shape, loc |-> params.location,
          scale |-> params.scale]
    ELSE [dist |-> "gumbel_r", c |-> 0, loc |-> params.location,
          scale |-> params.scale]

\* Variant: the probability inverted.
IsfInverted(distr, q) == [isf |-> distr, q |-> <<q[2], q[1]>>]
\* distr.isf(q): the value is named by the distribution and the probability q.
Isf(distr, q) == [isf |-> distr, q |-> q]

\* return_periods is None or a list; "if return_periods:" is its truth value.
Truthy(rp) == rp[1] = "list" /\ rp[2] # <<>>

\* ------------------------------------------------ inputs of the constructor
CiValues == {<<0 - 1, 20>>, <<0, 1>>, <<1, 20>>, <<1, 10>>, <<1, 1>>, <<3, 2>>}
CiMethods == {"None", "delta", "bootstrap", "profile"}
ReturnPeriodArgs == {<<"None">>, <<"list", <<>>>>, <<"list", <<2>>>>, <<"list", <<10, 2>>>>}
CtorArgs ==
    [cls : {"GEV", "Gumbel"}, n : 1..MaxData, fit_method : FitMethodArgs,
     ci : CiValues, ci_method : CiMethods, return_periods : ReturnPeriodArgs,
     frec : 1..MaxFrec]

BootIdle ==
    /\ bpc = "idle"
    /\ bargs = <<>>
    /\ rng = 0
    /\ stat = <<>>
    /\ nvals = <<>>
    /\ warned = <<>>
    /\ bresult = <<>>

Init ==
    /\ pc = "start"
    /\ args \in CtorArgs
    /\ self = <<>>
    /\ raised = "none"
    /\ calls = <<>>
    /\ warnflag = 0 - 1
    /\ caught = "none"
    /\ CoeffsIdle
    /\ BootIdle
    /\ seed = 0
    /\ sample = SampleOf(args.n)
    /\ PairIdle

\* self.data = data; the check of fit_method.
CheckFitMethod ==
    /\ pc = "start"
    /\ IF args.fit_method \in ValidFitMethods
       THEN /\ self' = SetAttr(SetAttr(self, "data", args.n), "fit_method", args.fit_method)
            /\ pc' = "fit"
            /\ raised' = raised
       ELSE /\ self' = SetAttr(self, "data", args.n)
            /\ pc' = "raised"
            /\ raised' = "ValueError: fit methods accepted"
    /\ UNCHANGED <<args, calls>>
    /\ UNCHANGED boot_vars
    /\ UNCHANGED <<warnflag, caught, coeffs>>
    /\ UNCHANGED <<sample, seed, pair>>

\* _fit hands self.data, the caller's array, to lmom_fit in these branches.
RunsLmomFit(cls, fit_method) ==
    \E k \in DOMAIN Routines(cls, fit_method) :
        Routines(cls, fit_method)[k] \in {"gev.lmom_fit", "gum.lmom_fit"}

\* self._fit() returning: params, c, loc, scale and distr are set. With a
\* fit_method that no branch of _fit handles, self.params is read unset.
Fit ==
    /\ pc = "fit"
    /\ IF self["fit_method"] \in {"mle", "lmoments", "mom"}
       THEN \E p \in Params(args.cls, self["fit_method"]) :
            \E w \in Warnflags(args.cls, self["fit_method"]) :
               /\ self' = SetAttr(SetAttr(SetAttr(SetAttr(SetAttr(self,
                              "params", p), "c", p.shape), "loc", p.location),
                              "scale", p.scale), "distr", Frozen(args.cls, p))
               /\ calls' = calls \o <<"_fit">> \o Routines(args.cls, self["fit_method"])
               /\ sample' = IF RunsLmomFit(args.cls, self["fit_method"])
                             THEN LmomRatios(sample).arg ELSE sample
               /\ warnflag' = w
               /\ pc' = "return_values"
               /\ raised' = raised
       ELSE /\ self' = self
            /\ calls' = Append(calls, "_fit")
            /\ sample' = sample
            /\ warnflag' = warnflag
            /\ pc' = "raised"
            /\ raised' = "AttributeError"
    /\ UNCHANGED args
    /\ UNCHANGED boot_vars
    /\ UNCHANGED <<caught, coeffs>>
    /\ UNCHANGED <<seed, pair>>

\* self._fit() left by an exception of a library routine (too few data for the
\* L-moments, a degenerate sample, ...).
FitFails ==
    /\ pc = "fit"
    /\ calls' = Append(calls, "_fit")
    /\ pc' = "raised"
    /\ raised' = "LibraryError"
    /\ UNCHANGED <<args, self>>
    /\ UNCHANGED boot_vars
    /\ UNCHANGED <<warnflag, caught, coeffs>>
    /\ UNCHANGED <<sample, seed, pair>>

\* self.frec, self.return_periods, self.return_values
ReturnValues ==
    /\ pc = "return_values"
    /\ LET rp == args.return_periods
       IN  IF Truthy(rp)
           THEN /\ self' = SetAttr(SetAttr(SetAttr(self, "frec", args.frec),
                               "return_periods", rp[2]),
                               "return_values",
                               [i \in 1..Len(rp[2]) |->
                                   Isf(self["distr"], <<args.frec, rp[2][i]>>)])
                /\ calls' = Append(calls, "isf")
           ELSE /\ self' = SetAttr(SetAttr(SetAttr(self, "frec", args.frec),
                               "return_periods", <<>>), "return_values", <<>>)
                /\ calls' = calls
    /\ pc' = "check_ci"
    /\ UNCHANGED <<args, raised>>
    /\ UNCHANGED boot_vars
    /\ UNCHANGED <<warnflag, caught, coeffs>>
    /\ UNCHANGED <<sample, seed, pair>>

\* The check of ci.
CheckCi ==
    /\ pc = "check_ci"
    /\ IF CiInRange(args.ci)
       THEN /\ self' = SetAttr(self, "ci", args.ci)
            /\ pc' = "check_ci_method"
            /\ raised' = raised
       ELSE /\ self' = self
            /\ pc' = "raised"
            /\ raised' = "ValueError: ci should be a value in the interval 0 < ci < 1"
    /\ UNCHANGED <<args, calls>>
    /\ UNCHANGED boot_vars
    /\ UNCHANGED <<warnflag, caught, coeffs>>
    /\ UNCHANGED <<sample, seed, pair>>

\* "if self.ci:" and the check of (fit_method, ci_method).
CheckCiMethod ==
    /\ pc = "check_ci_method"
    /\ IF RatEq(self["ci"], Zero)
       THEN /\ pc' = "done"
            /\ UNCHANGED <<self, raised, calls>>
       ELSE IF AcceptedPair(args.fit_method, args.ci_method)
       THEN /\ self' = SetAttr(self, "ci_method", args.ci_method)
            /\ calls' = Append(calls, "_ci")
            /\ pc' = "ci"
            /\ raised' = raised
       ELSE /\ pc' = "raised"
            /\ raised' = "ValueError: You should provide a valid value for ci_method"
            /\ UNCHANGED <<self, calls>>
    /\ UNCHANGED args
    /\ UNCHANGED boot_vars
    /\ UNCHANGED <<warnflag, caught, coeffs>>
    /\ UNCHANGED <<sample, seed, pair>>


\* ------------------------------------------------ GEV._ci_delta
\* _st.norm.ppf(1 - self.ci / 2): the quantile is named by its level.
NormPpf(level) == [ppf |-> level]

\* est - z * se and est + z * se, kept as the terms they are built from.
DeltaBound(est, sign, z, se) == [est |-> est, sign |-> sign, z |-> z, se |-> se]
\* Variant: the two signs exchanged.
DeltaIntervalSwapped(est, z, se) == <<DeltaBound(est, 1, z, se), DeltaBound(est, 0 - 1, z, se)>>
DeltaInterval(est, z, se) == <<DeltaBound(est, 0 - 1, z, se), DeltaBound(est, 1, z, se)>>

\* scipy.stats.norm.ppf, in thousandths, at the levels 1 - ci / 2 of
\* ci = 0.01, 0.05, 0.1, 0.5.
NormPpfValue(level) ==
    CASE RatEq(level, <<199, 200>>) -> 2576
      [] RatEq(level, <<39, 40>>)   -> 1960
      [] RatEq(level, <<19, 20>>)   -> 1645
      [] RatEq(level, <<3, 4>>)     -> 674
\* np.sqrt of a variance: the values a standard error takes in the model.
MaxSe == 2
SqrtValues == 0..MaxSe
\* The number, in thousandths, that a bound is when its standard error is se.
BoundValue(bound, se) == 1000 * bound.est + bound.sign * NormPpfValue(bound.z.ppf) * se

\* T = arange(0.1, 500.1, 0.1): point j of the grid is j / 10.
GridT(j) == <<j, 10>>
\* frec / T
FrecOverT(frec, T) == <<frec * Den(T), Num(T)>>

\* Variant: the form chosen by the length of theta alone.
NnlfByLength(theta) ==
    CASE Len(theta) = 3 -> [form |-> "gev", c |-> theta[1], loc |-> theta[2], scale |-> theta[3]]
      [] Len(theta) = 2 -> [form |-> "gumbel", loc |-> theta[1], scale |-> theta[2]]
      [] OTHER -> [form |-> "UnboundLocalError"]
\* _nnlf(theta): the expression evaluated, named by its form and the parameters
\* it reads. The Gumbel expression does not read c.
Nnlf(theta) ==
    LET c == IF Len(theta) = 3 THEN theta[1] ELSE 0
        loc == IF Len(theta) = 3 THEN theta[2] ELSE theta[1]
        scale == IF Len(theta) = 3 THEN theta[3] ELSE theta[2]
    IN  IF Len(theta) \notin {2, 3} THEN [form |-> "UnboundLocalError"]
        ELSE IF c # 0 THEN [form |-> "gev", c |-> c, loc |-> loc, scale |-> scale]
        ELSE [form |-> "gumbel", loc |-> loc, scale |-> scale]

\* The point _ci_delta evaluates the Hessian of _nnlf at, from the fitted c, loc
\* and scale: c = -self.c, and "if c:" keeps it in the vector or drops it.
HessianPoint(c, loc, scale) ==
    IF 0 - c # 0 THEN <<0 - c, loc, scale>> ELSE <<loc, scale>>

\* The body of _ci_delta on the instance obj: the attributes it sets.
CiDeltaAttrs(obj) ==
    LET c == 0 - obj["c"]
        z == NormPpf(OneMinusHalf(obj["ci"]))
        theta == HessianPoint(obj["c"], obj["loc"], obj["scale"])
        dim == Len(theta)
        se(i) == [hessian |-> [f |-> Nnlf(theta), at |-> theta], diag |-> i]
        sT2 == [j \in 1..GridLen |-> Isf(obj["distr"], FrecOverT(obj["frec"], GridT(j)))]
        grad(j) == [hessian |-> [f |-> Nnlf(theta), at |-> theta], gradZ |-> j]
        params_ci ==
            IF c # 0
            THEN [shape |-> DeltaInterval(obj["c"], z, se(0)),
                  location |-> DeltaInterval(obj["loc"], z, se(1)),
                  scale |-> DeltaInterval(obj["scale"], z, se(2))]
            ELSE [shape |-> <<0, 0>>,
                  location |-> DeltaInterval(obj["loc"], z, se(0)),
                  scale |-> DeltaInterval(obj["scale"], z, se(1))]
    IN  SetAttr(SetAttr(SetAttr(SetAttr(obj,
            "params_ci", params_ci),
            "_se", [i \in 1..dim |-> se(i - 1)]),
            "_ci_Tu", [j \in 1..GridLen |-> DeltaBound(sT2[j], 1, z, grad(j))]),
            "_ci_Td", [j \in 1..GridLen |-> DeltaBound(sT2[j], 0 - 1, z, grad(j))])

\* ------------------------------------------------ GEV._ci_bootstrap
\* bootstrap_ci's defaults, and the replicate count _ci_bootstrap passes.
DefaultAlpha == <<1, 20>>
BootSamples == 500

\* func: what one replicate does. The resample handed to it is not read.
Func(obj) ==
    [draw |-> [dist |-> "genextreme", c |-> obj["c"], loc |-> obj["loc"],
               scale |-> obj["scale"]],
     size |-> obj["data"],
     refit |-> "genextreme.fit",
     start |-> <<obj["c"], obj["loc"], obj["scale"]>>,
     optimizer |-> "fmin_bfgs"]

\* _bsci(self.data, statfunction = func, n_samples = 500): the arguments the
\* call binds; alpha keeps its default.
BsciCall(obj) ==
    [data |-> obj["data"], statfunction |-> Func(obj), alpha |-> DefaultAlpha,
     n_samples |-> BootSamples]

\* out[k, col]: the cell of the returned array in row k (0 lower, 1 upper) and
\* column col, named by its column and the rank it has in the sorted ensemble.
Out(nv, k, col) == [col |-> col, rank |-> nv[k + 1]]

\* The body of _ci_bootstrap after the call: the attributes it sets.
CiBootstrapAttrs(obj, nv) ==
    SetAttr(SetAttr(SetAttr(obj,
        "_ci_Td", [j \in 1..GridLen |-> Out(nv, 0, 3 + (j - 1))]),
        "_ci_Tu", [j \in 1..GridLen |-> Out(nv, 1, 3 + (j - 1))]),
        "params_ci", [shape |-> <<Out(nv, 0, 0), Out(nv, 1, 0)>>,
                      location |-> <<Out(nv, 0, 1), Out(nv, 1, 1)>>,
                      scale |-> <<Out(nv, 0, 2), Out(nv, 1, 3)>>])

\* self._ci() with ci_method == "delta"
CiDelta ==
    /\ pc = "ci"
    /\ self["ci_method"] = "delta"
    /\ self' = CiDeltaAttrs(self)
    /\ calls' = Append(calls, "_ci_delta")
    /\ pc' = "done"
    /\ UNCHANGED <<args, raised>>
    /\ UNCHANGED boot_vars
    /\ UNCHANGED <<warnflag, caught, coeffs>>
    /\ UNCHANGED <<sample, seed, pair>>

\* self._ci() with ci_method == "bootstrap"; bargs, nvals and bresult keep the
\* call to bootstrap_ci, the indices it used and the array it returned.
CiBootstrap ==
    /\ pc = "ci"
    /\ self["ci_method"] = "bootstrap"
    /\ LET call == BsciCall(self)
           nv == Nvals(call.alpha, call.n_samples)
       IN  /\ bargs' = call
           /\ nvals' = nv
           /\ bresult' = [k \in 1..2 |-> [col \in 1..(3 + GridLen) |-> Out(nv, k - 1, col - 1)]]
           /\ self' = CiBootstrapAttrs(self, nv)
    /\ calls' = Append(calls, "_ci_bootstrap")
    /\ pc' = "done"
    /\ UNCHANGED <<args, raised>>
    /\ UNCHANGED <<bpc, rng, stat, warned>>
    /\ UNCHANGED <<warnflag, caught, coeffs>>
    /\ UNCHANGED <<sample, seed, pair>>

\* self._ci() left by an exception of a library routine (a singular Hessian, a
\* failed refit).
CiFails ==
    /\ pc = "ci"
    /\ calls' = Append(calls, IF self["ci_method"] = "delta" THEN "_ci_delta" ELSE "_ci_bootstrap")
    /\ pc' = "raised"
    /\ raised' = "LibraryError"
    /\ UNCHANGED <<args, self>>
    /\ UNCHANGED boot_vars
    /\ UNCHANGED <<warnflag, caught, coeffs>>
    /\ UNCHANGED <<sample, seed, pair>>

Next ==
    \/ CheckFitMethod
    \/ Fit
    \/ FitFails
    \/ ReturnValues
    \/ CheckCi
    \/ CheckCiMethod
    \/ CiDelta
    \/ CiBootstrap
    \/ CiFails
Spec == Init /\ [][Next]_vars

\* ================================================================ engineering.py
\* Harris1996(...), Lieblein(...), PPPLiterature(...): the constructors and the
\* method each one runs inside its try block. Fitted numbers are rationals
\* <<numerator, denominator>>; <<0, 0>> stands for NaN.
NaN == <<0, 0>>
IsNaN(r) == Den(r) = 0

RECURSIVE GCD(_, _)
GCD(x, y) == IF y = 0 THEN x ELSE GCD(y, x % y)
\* The rational in lowest terms with a positive denominator.
Reduce(r) ==
    IF IsNaN(r) THEN NaN
    ELSE LET sgn == IF Den(r) < 0 THEN 0 - 1 ELSE 1
             n == sgn * Num(r)
             d == sgn * Den(r)
             g == GCD(IF n < 0 THEN 0 - n ELSE n, d)
         IN  <<n \div g, d \div g>>
RatNeg(x) == IF IsNaN(x) THEN NaN ELSE Reduce(<<0 - Num(x), Den(x)>>)
RatAdd(x, y) ==
    IF IsNaN(x) \/ IsNaN(y) THEN NaN
    ELSE Reduce(<<Num(x) * Den(y) + Num(y) * Den(x), Den(x) * Den(y)>>)
RatMul(x, y) ==
    IF IsNaN(x) \/ IsNaN(y) THEN NaN
    ELSE Reduce(<<Num(x) * Num(y), Den(x) * Den(y)>>)
\* x / y in float64: 0 / 0 is NaN (a RuntimeWarning, no exception).
RatDiv(x, y) ==
    IF IsNaN(x) \/ IsNaN(y) THEN NaN
    ELSE Reduce(<<Num(x) * Den(y), Den(x) * Num(y)>>)

\* A value a + b * y, with y = -log(-log(1 - 1 / T)) the Gumbel reduced variate of
\* the return period T, kept as the pair of its coefficients.
ReducedVariate(T) == [const |-> Zero, coef |-> One, T |-> T]
\* log(-log(1 - 1 / T)) = -y
LogLog(T) == [const |-> Zero, coef |-> RatNeg(One), T |-> T]
Shift(form, r) == [form EXCEPT !.const = RatAdd(@, r)]
Scale(form, r) == [form EXCEPT !.const = RatMul(@, r), !.coef = RatMul(@, r)]

\* Variant: the exponent is not applied.
PowKept(x, e) == x
\* x ** e; x ** 1 is x.
Pow(x, e) == IF e = One THEN x ELSE [base |-> x, exp |-> e]

\* numpy.arange(lo, hi) for integers
Arange(lo, hi) == [k \in 1..(hi - lo) |-> lo + k - 1]

\* The coefficient tables of Lieblein stop at samples of 16 elements.
TableMax == 16

\* np.sort(self.data) (ascending) or np.sort(self.data)[::-1] (descending), then
\* data ** self.preconditioning: the array is named by its length, its order and
\* the exponent applied.
Preconditioned(n, order, preconditioning) ==
    [n |-> n, order |-> order, exp |-> <<preconditioning, 1>>]

\* ------------------------------------------------ inputs
EngClasses == {"Harris1996", "Lieblein", "PPPLiterature"}
PppNames ==
    {"Adamowski", "Beard", "Blom", "Chegodayev", "Cunnane", "Gringorten", "Hazen",
     "Hirsch", "IEC56", "Landwehr", "Laplace", "McClung and Mears", "Tukey", "Weibull"}
\* The names the model passes as ppp to PPPLiterature ("weibull" matches no branch).
PppArgs == PppNames \cup {"weibull"}
\* data: None, the scalar 1, or a sequence of n numbers, all finite or with a NaN.
DataSizes == (0..MaxData) \cup {TableMax + 1}
DataArgs ==
    {<<"None">>, <<"scalar">>}
        \cup {<<"list", n, "finite">> : n \in DataSizes}
        \cup {<<"list", n, "nan">> : n \in DataSizes \ {0}}
Preconditionings == {1, 2}
EngArgs ==
    {a \in [cls : EngClasses, data : DataArgs, preconditioning : Preconditionings,
            ppp : PppArgs \cup {"Harris1996", "Lieblein"}] :
        /\ a.cls = "Harris1996" => a.ppp = "Harris1996"
        /\ a.cls = "Lieblein" => a.ppp = "Lieblein"
        /\ a.cls = "PPPLiterature" => a.ppp \in PppArgs}

\* Values a fitted number takes in the model.
HarrisAlphas == {<<1, 2>>, <<2, 1>>}
HarrisProducts == {<<3, 1>>}
Slopes == {<<1, 2>>, <<2, 1>>}
Offsets == {<<3, 2>>}

EngInit ==
    /\ pc = "eng_start"
    /\ args \in EngArgs
    /\ self = <<>>
    /\ raised = "none"
    /\ calls = <<>>
    /\ warnflag = 0 - 1
    /\ caught = "none"
    /\ CoeffsIdle
    /\ BootIdle
    /\ seed = 0
    /\ sample = IF args.data[1] = "list" THEN SampleOf(args.data[2]) ELSE <<>>
    /\ PairIdle

\* raise Exception('You should provide some data.')
ProvideData == "Exception: You should provide some data."

\* The attributes every method sets last: c, loc, scale, distr.
GumbelAttrs(obj, results) ==
    SetAttr(SetAttr(SetAttr(SetAttr(SetAttr(obj,
        "results", results),
        "c", 0),
        "loc", results["offset"]),
        "scale", results["slope"]),
        "distr", Frozen("Gumbel", [shape |-> 0, location |-> results["offset"],
                                   scale |-> results["slope"]]))

\* _GumbelBase.__init__(**kwargs)
GumbelBaseInit ==
    /\ pc = "eng_start"
    /\ self' = SetAttr(SetAttr(SetAttr(self,
                   "preconditioning", args.preconditioning),
                   "ppp", "None"),
                   "results", <<>>)
    /\ pc' = "try"
    /\ UNCHANGED <<args, raised, calls, warnflag, caught, coeffs>>
    /\ UNCHANGED boot_vars
    /\ UNCHANGED <<sample, seed, pair>>

\* try: self.data = data; self.N = len(self.data); self.ppp = ppp. len() of None
\* or of a number is a TypeError, which the bare except replaces.
BindData ==
    /\ pc = "try"
    /\ IF args.data[1] = "list"
       THEN /\ self' = SetAttr(SetAttr(SetAttr(self,
                           "data", args.data), "N", args.data[2]), "ppp", args.ppp)
            /\ pc' = "ppp"
            /\ UNCHANGED <<raised, caught>>
       ELSE /\ self' = SetAttr(self, "data", args.data)
            /\ pc' = "raised"
            /\ caught' = "TypeError"
            /\ raised' = ProvideData
    /\ UNCHANGED <<args, calls, warnflag, coeffs>>
    /\ UNCHANGED boot_vars
    /\ UNCHANGED <<sample, seed, pair>>

\* ------------------------------------------------ Harris1996._ppp_harris1996
\* The table of values for the return periods 2..100.
HarrisValues(alpha, pi_upper, preconditioning) ==
    LET return_periods == Arange(2, 100 + 1)
        v_ext_tmp == [k \in DOMAIN return_periods |->
                         Scale(Shift(ReducedVariate(return_periods[k]), pi_upper),
                               RatDiv(One, alpha))]
    IN  [k \in DOMAIN v_ext_tmp |-> Pow(v_ext_tmp[k], <<1, preconditioning>>)]

HarrisResults(obj, alpha, pi_upper) ==
    [key \in {"data", "Values for return period from 2 to 100 years", "slope",
              "offset", "characteristic product", "alpha"} |->
        CASE key = "data" -> Preconditioned(obj["N"], "descending", obj["preconditioning"])
          [] key = "Values for return period from 2 to 100 years" ->
                 HarrisValues(alpha, pi_upper, obj["preconditioning"])
          [] key = "slope" -> RatDiv(One, alpha)
          [] key = "offset" -> RatDiv(pi_upper, alpha)
          [] key = "characteristic product" -> pi_upper
          [] key = "alpha" -> alpha]

\* No step of the method raises for a numeric sample: with fewer than two
\* observations (or a NaN among them) alpha is 0 / 0, a NaN, and so is all that
\* follows from it.
Harris1996Ppp ==
    /\ pc = "ppp"
    /\ args.cls = "Harris1996"
    /\ \E alpha \in (IF self["N"] < 2 \/ self["data"][3] = "nan"
                     THEN {NaN} ELSE HarrisAlphas) :
       \E pi_upper \in (IF IsNaN(alpha) THEN {NaN} ELSE HarrisProducts) :
           self' = GumbelAttrs(self, HarrisResults(self, alpha, pi_upper))
    /\ sample' = NpSort(sample).arg
    /\ calls' = calls \o <<"_ppp_harris1996">> \o (IF self["N"] > 0 THEN <<"quad">> ELSE <<>>)
    /\ pc' = "done"
    /\ UNCHANGED <<args, raised, warnflag, caught, coeffs>>
    /\ UNCHANGED boot_vars
    /\ UNCHANGED <<seed, pair>>

\* ------------------------------------------------ Lieblein._ppp_lieblein
\* vref = (-sigma * log(-log(1 - 1 / return_period)) + mu) ** (1 / preconditioning)
Vref(slope, offset, return_period, preconditioning) ==
    [k \in DOMAIN return_period |->
        Pow(Shift(Scale(LogLog(return_period[k]), RatNeg(slope)), offset),
            <<1, preconditioning>>)]

LiebleinResults(obj, mu, sigma) ==
    [key \in {"data", "Values for return period from 2 to 100 years", "slope",
              "offset"} |->
        CASE key = "data" -> Preconditioned(obj["N"], "ascending", obj["preconditioning"])
          [] key = "Values for return period from 2 to 100 years" ->
                 Vref(sigma, mu, Arange(2, 100 + 1), obj["preconditioning"])
          [] key = "slope" -> sigma
          [] key = "offset" -> mu]

\* distr_params reads ai['n = NN'] for N <= 16, a KeyError for N = 0 and N = 1,
\* and calls coeffs(N, 16) for a longer sample.
LiebleinPpp ==
    /\ pc = "ppp"
    /\ args.cls = "Lieblein"
    /\ IF self["N"] < 2
       THEN /\ calls' = Append(calls, "_ppp_lieblein")
            /\ pc' = "raised"
            /\ caught' = "KeyError"
            /\ raised' = ProvideData
            /\ self' = self
       ELSE /\ \E mu \in (IF self["data"][3] = "nan" THEN {NaN} ELSE Offsets) :
               \E sigma \in (IF self["data"][3] = "nan" THEN {NaN} ELSE Slopes) :
                   self' = GumbelAttrs(self, LiebleinResults(self, mu, sigma))
            /\ calls' = calls \o <<"_ppp_lieblein">>
                           \o (IF self["N"] > TableMax THEN <<"coeffs">> ELSE <<>>)
            /\ pc' = "done"
            /\ UNCHANGED <<raised, caught>>
    /\ sample' = NpSort(sample).arg
    /\ UNCHANGED <<args, warnflag, coeffs>>
    /\ UNCHANGED boot_vars
    /\ UNCHANGED <<seed, pair>>

\* ------------------------------------------------ PPPLiterature._calculate_values
\* The chain of "if how == ...": P = ((arange(N) + 1) + a) / (N + b), with the
\* pair <<a, b>> of the branch that how selects; no branch, no P.
Unbound == <<>>
PlottingPosition(how) ==
    CASE how = "Adamowski"         -> <<<<0 - 1, 4>>, <<1, 2>>>>
      [] how = "Beard"             -> <<<<0 - 31, 100>>, <<38, 100>>>>
      [] how = "Blom"              -> <<<<0 - 375, 1000>>, <<1, 4>>>>
      [] how = "Chegodayev"        -> <<<<0 - 3, 10>>, <<4, 10>>>>
      [] how = "Cunnane"           -> <<<<0 - 4, 10>>, <<2, 10>>>>
      [] how = "Gringorten"        -> <<<<0 - 44, 100>>, <<12, 100>>>>
      [] how = "Hazen"             -> <<<<0 - 1, 2>>, <<0, 1>>>>
      [] how = "Hirsch"            -> <<<<1, 2>>, <<1, 1>>>>
      [] how = "IEC56"             -> <<<<0 - 1, 2>>, <<1, 4>>>>
      [] how = "Landwehr"          -> <<<<0 - 35, 100>>, <<0, 1>>>>
      [] how = "Laplace"           -> <<<<1, 1>>, <<2, 1>>>>
      [] how = "McClung and Mears" -> <<<<0 - 4, 10>>, <<0, 1>>>>
      [] how = "Tukey"             -> <<<<0 - 1, 3>>, <<1, 3>>>>
      [] how = "Weibull"           -> <<<<0, 1>>, <<1, 1>>>>
      [] OTHER                     -> Unbound
\* Variant: every name gives the positions of Weibull.
PWeibull(how, i, N) == RatDiv(<<i, 1>>, <<N + 1, 1>>)
\* Variant: the denominator without its shift.
PNoShift(how, i, N) == RatDiv(RatAdd(<<i, 1>>, PlottingPosition(how)[1]), <<N, 1>>)
\* Element i (1-based) of P for a sample of N.
P(how, i, N) ==
    LET ab == PlottingPosition(how)
    IN  RatDiv(RatAdd(<<i, 1>>, ab[1]), RatAdd(<<N, 1>>, ab[2]))

PPPResults(obj, how, slope, offset) ==
    [key \in {"data", "Y", "Values for return period from 2 to 100 years", "R2",
              "slope", "offset"} |->
        CASE key = "data" -> Preconditioned(obj["N"], "ascending", obj["preconditioning"])
          [] key = "Y" -> [i \in 1..obj["N"] |-> [minusloglog |-> P(how, i, obj["N"])]]
          [] key = "Values for return period from 2 to 100 years" ->
                 Vref(slope, offset, Arange(2, 101), obj["preconditioning"])
          [] key = "R2" -> IF obj["N"] < 2 \/ IsNaN(slope) THEN NaN ELSE [corrcoef |-> "Y, data"]
          [] key = "slope" -> slope
          [] key = "offset" -> offset]

\* Y = -log(-log(P)) reads P: an UnboundLocalError when no branch assigned it.
\* np.polyfit raises a TypeError for an empty vector and a LinAlgError for a NaN in
\* the data; for a single point it warns (RankWarning) and returns a line.
CalculateValues ==
    /\ pc = "ppp"
    /\ args.cls = "PPPLiterature"
    /\ LET how == self["ppp"]
           failure ==
               IF PlottingPosition(how) = Unbound THEN "UnboundLocalError"
               ELSE IF self["N"] = 0 THEN "TypeError"
               ELSE IF self["data"][3] = "nan" THEN "LinAlgError"
               ELSE "none"
       IN  IF failure # "none"
           THEN /\ calls' = calls \o <<"_calculate_values">>
                               \o (IF failure = "UnboundLocalError" THEN <<>> ELSE <<"polyfit">>)
                /\ pc' = "raised"
                /\ caught' = failure
                /\ raised' = ProvideData
                /\ self' = self
           ELSE /\ \E slope \in Slopes : \E offset \in Offsets :
                       self' = GumbelAttrs(self, PPPResults(self, how, slope, offset))
                /\ calls' = calls \o <<"_calculate_values", "polyfit", "corrcoef">>
                /\ pc' = "done"
                /\ UNCHANGED <<raised, caught>>
    /\ sample' = NpSort(sample).arg
    /\ UNCHANGED <<args, warnflag, coeffs>>
    /\ UNCHANGED boot_vars
    /\ UNCHANGED <<seed, pair>>

\* ------------------------------------------------ PPPLiterature._ppp_<name>
\* Calls of a _ppp_<name> method on a constructed instance the model follows.
MaxLater == 1
\* The methods the model calls: the first and the last of the fourteen, which
\* differ in the literal they pass only.
LaterNames == {"Adamowski", "Weibull"}
IsPppName(fn) == fn \in PppNames
\* The names of the _ppp_<name> methods called after the constructor, in order.
LaterCalls == SelectSeq(calls, IsPppName)

\* _ppp_adamowski(), ..., _ppp_weibull() on a constructed instance: each is the
\* one statement self._calculate_values(how = "<name>"), which sets results, c,
\* loc, scale and distr again. The instance was constructed, so polyfit has
\* accepted its data once already.
PppMethod ==
    /\ pc = "done"
    /\ args.cls = "PPPLiterature"
    /\ Len(LaterCalls) < MaxLater
    /\ \E how \in LaterNames : \E slope \in Slopes : \E offset \in Offsets :
           /\ self' = GumbelAttrs(self, PPPResults(self, how, slope, offset))
           /\ calls' = calls \o <<how, "_calculate_values", "polyfit", "corrcoef">>
    /\ sample' = NpSort(sample).arg
    /\ UNCHANGED <<pc, args, raised, warnflag, caught, coeffs>>
    /\ UNCHANGED boot_vars
    /\ UNCHANGED <<seed, pair>>

EngNext ==
    \/ GumbelBaseInit
    \/ BindData
    \/ Harris1996Ppp
    \/ LiebleinPpp
    \/ CalculateValues
    \/ PppMethod
SpecEng == EngInit /\ [][EngNext]_vars

\* Both families of estimators: the classic constructors and the engineering ones.
SpecModels == (Init \/ EngInit) /\ [][Next \/ EngNext]_vars

\* ================================================================ Lieblein: coeffs
\* The tabulated coefficients for samples of 16 elements, ai['n = 16'] and
\* bi['n = 16'], in millionths.
ai(m) ==
    CASE m = 16 -> <<144271, 113346, 98600, 87801, 79021, 71476, 64771, 58660,
                     52989, 47646, 42539, 37597, 32748, 27911, 22969, 17653>>
bi(m) ==
    CASE m = 16 -> <<0 - 262990, 0 - 98406, 0 - 50731, 0 - 21933, 0 - 2167, 12270,
                     23168, 31528, 37939, 42787, 46308, 48646, 49860, 49912,
                     48602, 45207>>

\* Variant: the table read from its end.
ItemReversed(table, t) == table[Len(table) - t]
\* table[t], t counted from 0.
Item(table, t) == table[t + 1]

\* x! / (y! * (x - y)!) for 0 <= y <= x
RECURSIVE Binomial(_, _)
Binomial(x, y) == IF y = 0 THEN 1 ELSE (Binomial(x, y - 1) * (x - y + 1)) \div y
\* hyp(n, m, i, t) raises: a factorial of a negative number is a ValueError.
HypRaises(n, m, i, t) == i - t < 0 \/ m - t < 0 \/ (n - i) - (m - t) < 0 \/ n - m < 0
\* Variant: bin2 left out.
HypFirstFactor(n, m, i, t) == <<Binomial(i, t), Binomial(n, m)>>
\* bin1 * bin2 / bin3, as numerator and denominator
Hyp(n, m, i, t) == <<Binomial(i, t) * Binomial(n - i, m - t), Binomial(n, m)>>

\* The sizes coeffs is run for: the table's own size and the first two beyond it.
CoeffsSizes == {TableMax, TableMax + 1, TableMax + 2}
CoeffsInit ==
    /\ CtorIdle
    /\ BootIdle
    /\ seed = 0
    /\ sample = <<>>
    /\ PairIdle
    /\ \E n \in CoeffsSizes :
           coeffs = [n |-> n, m |-> TableMax, i |-> 0, t |-> 0, a |-> 0, b |-> 0,
                     aip |-> <<>>, bip |-> <<>>, pc |-> "loop"]

\* One pass of "for t in range(m)": inside the loop over t the sums a and b are
\* kept as numerators over (i + 1) * C(n, m), the denominator all the terms of one
\* i share. A pass whose hyp raises leaves a and b as they are (except: pass).
Term ==
    /\ coeffs # <<>>
    /\ coeffs.pc = "loop"
    /\ coeffs.i < coeffs.n
    /\ coeffs.t < coeffs.m
    /\ LET n == coeffs.n
           m == coeffs.m
           i == coeffs.i
           t == coeffs.t
       IN  IF HypRaises(n, m, i + 1, t + 1)
           THEN coeffs' = [coeffs EXCEPT !.t = t + 1]
           ELSE coeffs' = [coeffs EXCEPT
                    !.a = @ + Item(ai(m), t) * (t + 1) * Hyp(n, m, i + 1, t + 1)[1],
                    !.b = @ + Item(bi(m), t) * (t + 1) * Hyp(n, m, i + 1, t + 1)[1],
                    !.t = t + 1]
    /\ UNCHANGED ctor_vars
    /\ UNCHANGED boot_vars
    /\ UNCHANGED <<sample, seed, pair>>

\* aip.append(a); bip.append(b), and the next turn of "for i in range(n)".
AppendCoeff ==
    /\ coeffs # <<>>
    /\ coeffs.pc = "loop"
    /\ coeffs.i < coeffs.n
    /\ coeffs.t = coeffs.m
    /\ LET shared == (coeffs.i + 1) * Binomial(coeffs.n, coeffs.m)
       IN  coeffs' = [coeffs EXCEPT
               !.aip = Append(@, Reduce(<<coeffs.a, shared>>)),
               !.bip = Append(@, Reduce(<<coeffs.b, shared>>)),
               !.i = @ + 1, !.t = 0, !.a = 0, !.b = 0]
    /\ UNCHANGED ctor_vars
    /\ UNCHANGED boot_vars
    /\ UNCHANGED <<sample, seed, pair>>

\* return aip, bip
ReturnCoeffs ==
    /\ coeffs # <<>>
    /\ coeffs.pc = "loop"
    /\ coeffs.i = coeffs.n
    /\ coeffs' = [coeffs EXCEPT !.pc = "done"]
    /\ UNCHANGED ctor_vars
    /\ UNCHANGED boot_vars
    /\ UNCHANGED <<sample, seed, pair>>

CoeffsNext == Term \/ AppendCoeff \/ ReturnCoeffs
SpecCoeffs == CoeffsInit /\ [][CoeffsNext]_vars

\* ================================================================ datasets._Base
\* _Base(description, data, fields): the container every dataset function returns.
\* data is an array of one or two dimensions, named by its shape; fields is a
\* tuple of distinct names.
MaxCols == 3
FieldNames == {"obs", "year", "sea_level"}
FieldTuples ==
    {f \in UNION {[1..k -> FieldNames] : k \in 0..MaxCols} :
        \A i \in DOMAIN f : \A j \in DOMAIN f : i # j => f[i] # f[j]}
DataArrays ==
    {[ndim |-> 1, shape |-> <<rows>>] : rows \in 1..MaxData}
        \cup {[ndim |-> 2, shape |-> <<rows, cols>>] : rows \in 1..MaxData, cols \in 1..MaxCols}
DatasetArgs == [description : {"text"}, data : DataArrays, fields : FieldTuples]

DatasetInit ==
    /\ pc = "start"
    /\ args \in DatasetArgs
    /\ self = <<>>
    /\ raised = "none"
    /\ calls = <<>>
    /\ warnflag = 0 - 1
    /\ caught = "none"
    /\ CoeffsIdle
    /\ BootIdle
    /\ seed = 0
    /\ sample = <<>>
    /\ PairIdle

\* cols = 1 if data.ndim == 1 else data.shape[1]
Cols(data) == IF data.ndim = 1 THEN 1 ELSE data.shape[2]
\* data[:, i], i counted from 0
ColumnOf(data, i) == [of |-> data, col |-> i]
\* raise ValueError(('The number of fields is not equal to')('the number of ...')):
\* the argument is evaluated first, and it is a call of the first string literal
\* with the second as its argument, which raises a TypeError; ValueError is
\* never constructed.
FieldsMismatch == "TypeError: 'str' object is not callable"
\* tmpdict: the fields' names mapped to the whole array (one column) or to the
\* columns in order.
FieldsDict(data, fields) ==
    IF Cols(data) = 1
    THEN [name \in {fields[1]} |-> data]
    ELSE [name \in {fields[i] : i \in 1..Len(fields)} |->
             ColumnOf(data, (CHOOSE i \in 1..Len(fields) : fields[i] = name) - 1)]

\* The test of len(fields) against cols.
CheckFields ==
    /\ pc = "start"
    /\ args \in DatasetArgs
    /\ IF Len(args.fields) # Cols(args.data)
       THEN /\ pc' = "raised"
            /\ raised' = FieldsMismatch
       ELSE /\ pc' = "fields"
            /\ raised' = raised
    /\ UNCHANGED <<args, self, calls, warnflag, caught, coeffs>>
    /\ UNCHANGED boot_vars
    /\ UNCHANGED <<sample, seed, pair>>

\* self._data, self.description, self.fields
SetFields ==
    /\ pc = "fields"
    /\ args \in DatasetArgs
    /\ self' = SetAttr(SetAttr(SetAttr(self,
                   "_data", args.data),
                   "description", args.description),
                   "fields", FieldsDict(args.data, args.fields))
    /\ pc' = "done"
    /\ UNCHANGED <<args, raised, calls, warnflag, caught, coeffs>>
    /\ UNCHANGED boot_vars
    /\ UNCHANGED <<sample, seed, pair>>

\* asarray()
Asarray(obj) == obj["_data"]

DatasetNext == CheckFields \/ SetFields
SpecDataset == DatasetInit /\ [][DatasetNext]_vars

\* ================================================================ claims: construction
\* The configurations the documentation accepts (with a valid fit_method).
ConfigAccepted(a) ==
    \/ Num(a.ci) = 0
    \/ /\ 0 < Num(a.ci)
       /\ Num(a.ci) < Den(a.ci)
       /\ <<a.fit_method, a.ci_method>> \in
              {<<"mle", "delta">>, <<"mle", "bootstrap">>,
               <<"lmoments", "bootstrap">>, <<"mom", "bootstrap">>}
ConfigErrors ==
    {"ValueError: ci should be a value in the interval 0 < ci < 1",
     "ValueError: You should provide a valid value for ci_method"}

\* C1: with a fit_method other than 'mle', 'mom', 'lmoments' the constructor ends
\* with the fit-method ValueError, _fit is never entered and no attribute other
\* than data is set.
C1_BadFitMethodRaisesFirst ==
    (args.fit_method \notin {"mle", "mom", "lmoments"} /\ pc # "start") =>
        /\ pc = "raised"
        /\ raised = "ValueError: fit methods accepted"
        /\ calls = <<>>
        /\ DOMAIN self \subseteq {"data"}

\* The constructor has been left by the fit-method error.
C1_Witness ==
    /\ pc = "raised"
    /\ args.fit_method = "pwm"
    /\ raised = "ValueError: fit methods accepted"

\* C2: with a valid fit_method, an invalid ci or an incompatible
\* (fit_method, ci_method) pair is reported before any numeric work: _fit and the
\* return-level computation are never entered for such a configuration.
C2_ConfigErrorBeforeNumericWork ==
    (args.fit_method \in {"mle", "mom", "lmoments"} /\ ~ConfigAccepted(args)) =>
        (~Called("_fit") /\ ~Called("isf"))

\* C3: with a valid fit_method, and the numeric steps not failing, the
\* constructor returns exactly for the accepted configurations and raises a
\* configuration ValueError for every other one; with ci = 0 the ci_method is
\* not stored, _ci is never entered and params_ci is never set.
C3_AcceptanceTable ==
    args.fit_method \in {"mle", "mom", "lmoments"} =>
        /\ pc \in {"ci", "done"} => ConfigAccepted(args)
        /\ (pc = "raised" /\ raised # "LibraryError") =>
              (~ConfigAccepted(args) /\ raised \in ConfigErrors)
        /\ (pc = "raised" /\ raised = "LibraryError" /\ ~ConfigAccepted(args)) =>
              ~Called("_ci")
        /\ Num(args.ci) = 0 =>
              /\ ~Called("_ci")
              /\ ~Has("params_ci")
              /\ ~Has("ci_method")
              /\ pc \notin {"ci"}
              /\ raised \notin ConfigErrors

\* The constructor has returned for ci = 0 with a ci_method that no fit method
\* accepts, without confidence intervals.
C3_Witness ==
    /\ pc = "done"
    /\ Num(args.ci) = 0
    /\ args.ci_method = "profile"
    /\ Has("params")
    /\ ~Has("params_ci")

\* C4: for a requested ci in (0,1) the intervals are at the (ci/2, 1 - ci/2)
\* levels: the delta method takes the normal quantile at 1 - ci/2, and the
\* bootstrap is called with alpha equal to ci and reads the ranks that ci gives.
C4_IntervalLevelIsCi ==
    (pc = "done" /\ Num(args.ci) # 0) =>
        /\ args.ci_method = "delta" =>
              self["params_ci"].location[2].z = NormPpf(OneMinusHalf(args.ci))
        /\ args.ci_method = "bootstrap" =>
              /\ RatEq(bargs.alpha, args.ci)
              /\ nvals = Nvals(args.ci, bargs.n_samples)

\* Column of the bootstrap output that holds each parameter.
ParamColumn(p) == CASE p = "shape" -> 0 [] p = "location" -> 1 [] p = "scale" -> 2

\* C5: with the bootstrap method, params_ci[p] is (lower, upper) of the column of
\* p for each of shape, location, scale, and the return-level bounds come from
\* the return-level columns alone.
C5_BootstrapColumns ==
    (pc = "done" /\ Num(args.ci) # 0 /\ args.ci_method = "bootstrap") =>
        /\ \A p \in {"shape", "location", "scale"} :
              /\ self["params_ci"][p][1] = bresult[1][ParamColumn(p) + 1]
              /\ self["params_ci"][p][2] = bresult[2][ParamColumn(p) + 1]
        /\ \A j \in 1..GridLen :
              /\ self["_ci_Td"][j] = bresult[1][3 + j]
              /\ self["_ci_Tu"][j] = bresult[2][3 + j]

\* The estimator that produced the point estimate, per family and fit method.
FitEstimator(cls, fit_method) ==
    CASE cls = "GEV" /\ fit_method = "mle"         -> "genextreme.fit"
      [] cls = "GEV" /\ fit_method = "lmoments"    -> "gev.lmom_fit"
      [] cls = "GEV" /\ fit_method = "mom"         -> "gev_momfit"
      [] cls = "Gumbel" /\ fit_method = "mle"      -> "gumbel_r.fit"
      [] cls = "Gumbel" /\ fit_method = "lmoments" -> "gum.lmom_fit"
      [] cls = "Gumbel" /\ fit_method = "mom"      -> "gum_momfit"

\* C6: with the bootstrap method, a replicate draws a sample of the size of the
\* data from the fitted distribution and refits it with the estimator of the same
\* family and fit method as the point estimate.
C6_ReplicateRefitsSameEstimator ==
    (pc = "done" /\ Num(args.ci) # 0 /\ args.ci_method = "bootstrap") =>
        /\ bargs.statfunction.size = args.n
        /\ bargs.statfunction.draw.c = self["c"]
        /\ bargs.statfunction.draw.loc = self["loc"]
        /\ bargs.statfunction.draw.scale = self["scale"]
        /\ bargs.statfunction.refit = FitEstimator(args.cls, args.fit_method)
        /\ Called(FitEstimator(args.cls, args.fit_method))

\* ================================================================ claims: bootstrap_ci
Abs(x) == IF x < 0 THEN 0 - x ELSE x
\* k is an integer nearest to p / q
Nearest(k, p, q) == 2 * Abs(k * q - p) <= q
\* v is the value of rank k (0-based) among the values of col
HasRank(v, k, col) ==
    /\ Cardinality({i \in 1..Len(col) : col[i] < v}) <= k
    /\ Cardinality({i \in 1..Len(col) : col[i] <= v}) > k

\* C7: for alpha in (0,1) and n_samples >= 1, both percentile indices lie in
\* [0, n_samples - 1], they are the integers nearest to (n-1)*alpha/2 and
\* (n-1)*(1-alpha/2), and the returned rows hold, in every component, the values of
\* those ranks in the replicate ensemble.
C7_PercentileIndices ==
    LET n == bargs.n_samples
        a == bargs.alpha
    IN  /\ nvals # <<>> =>
              /\ \A k \in 1..2 : nvals[k] \in 0..(n - 1)
              /\ Nearest(nvals[1], (n - 1) * Num(a), 2 * Den(a))
              /\ Nearest(nvals[2], (n - 1) * (2 * Den(a) - Num(a)), 2 * Den(a))
        /\ bpc = "done" =>
              \A k \in 1..2 : \A c \in 1..Width(stat) :
                  HasRank(bresult[k][c], nvals[k], Column(stat, c))

\* A call has returned with two different interior indices and different bounds.
C7_Witness ==
    /\ bpc = "done"
    /\ 0 < nvals[1]
    /\ nvals[1] < nvals[2]
    /\ nvals[2] < bargs.n_samples - 1
    /\ bresult[1] # bresult[2]

\* The index the claim's text computes from (alpha, n) alone: the integer nearest
\* to p / q, the even one on a tie.
C8_Round(p, q) ==
    CHOOSE k \in 0..(p \div q + 1) :
        \/ 2 * Abs(k * q - p) < q
        \/ (2 * Abs(k * q - p) = q /\ k % 2 = 0)
C8_Expected(a, n) ==
    LET lo == C8_Round((n - 1) * Num(a), 2 * Den(a))
        hi == C8_Round((n - 1) * (2 * Den(a) - Num(a)), 2 * Den(a))
        extremal == lo = 0 \/ hi = 0 \/ lo = n - 1 \/ hi = n - 1
        near == lo < 10 \/ hi < 10 \/ lo >= n - 10 \/ hi >= n - 10
    IN  IF extremal THEN <<"extremal">>
        ELSE IF near THEN <<"top10">>
        ELSE <<>>

\* C8: once the warning branch has run, the warnings emitted are: the extremal one
\* exactly when an index is 0 or n_samples - 1, the top-10 one exactly when no index
\* is extremal and some index is < 10 or >= n_samples - 10, none otherwise; never
\* more than one, and fixed by (alpha, n_samples) alone.
C8_WarningTable ==
    /\ Len(warned) <= 1
    /\ bpc \in {"return", "done"} => warned = C8_Expected(bargs.alpha, bargs.n_samples)
    /\ bpc \in {"resample", "index", "warn"} => warned = <<>>

\* A call over more than 20 replicates has returned having emitted only the
\* milder warning.
C8_Witness ==
    /\ bpc = "done"
    /\ warned = <<"top10">>
    /\ bargs.n_samples > 20
    /\ nvals[1] > 0

\* C9: the step that emits a diagnostic never ends the call with an exception: it
\* always proceeds to the return, leaving the sorted ensemble and the indices (from
\* which the interval is read) as they are without a diagnostic.
C9_WarningNeverHalts ==
    /\ [](bpc # "raised")
    /\ [][bpc = "warn" => (bpc' = "return" /\ stat' = stat /\ nvals' = nvals)]_vars

\* A call has returned its interval after emitting a warning.
C9_Witness ==
    /\ bpc = "done"
    /\ warned # <<>>
    /\ bresult = Rows(stat, nvals)
    /\ bresult[1] # bresult[2]

\* C10: in the returned interval lower <= upper in every output component.
C10_LowerLeUpper ==
    bpc = "done" => \A c \in 1..Width(stat) : bresult[1][c] <= bresult[2][c]

\* A vector-valued call whose two components are anti-correlated has returned an
\* interval that is strictly increasing in both components.
C10_Witness ==
    /\ bpc = "done"
    /\ bargs.statfunction = "sumneg"
    /\ bresult[1][1] < bresult[2][1]
    /\ bresult[1][2] < bresult[2][2]

\* ================================================================ claims: Gumbel-type fits
\* C11: every Gumbel-type fit reports shape 0: for the Gumbel class, under each
\* fit method, params['shape'] and c are 0 and the delta-method interval of the
\* shape is (0, 0); for Harris1996, Lieblein and PPPLiterature c is 0 once the
\* constructor has returned.
C11_GumbelShapeZero ==
    /\ (args.cls = "Gumbel" /\ Has("params")) =>
          /\ self["params"].shape = 0
          /\ self["c"] = 0
    /\ (args.cls = "Gumbel" /\ Has("params_ci") /\ self["ci_method"] = "delta") =>
          self["params_ci"].shape = <<0, 0>>
    /\ (args.cls \in EngClasses /\ pc = "done") =>
          (Has("c") /\ self["c"] = 0)

\* A Gumbel fit with delta-method intervals has been constructed.
C11_Witness ==
    /\ pc = "done"
    /\ args.cls = "Gumbel"
    /\ Has("params_ci")
    /\ self["ci_method"] = "delta"
    /\ self["params_ci"].shape = <<0, 0>>
    /\ self["c"] = 0

\* ================================================================ claims: delta method
\* The fitted number that each parameter's interval is built around.
C12_Estimate(p) ==
    CASE p = "shape" -> self["c"] [] p = "location" -> self["loc"] [] p = "scale" -> self["scale"]
\* The parameters whose interval the delta method computes.
C12_Params == IF self["c"] # 0 THEN {"shape", "location", "scale"} ELSE {"location", "scale"}
\* Confidence levels at which the method is applied again to the same fit.
C12_Levels == {<<1, 100>>, <<1, 20>>, <<1, 10>>, <<1, 2>>}

\* C12: with the delta method each parameter's interval is (estimate - z * se,
\* estimate + z * se), z the normal quantile at 1 - ci / 2 and se one standard
\* error; for every se >= 0 it brackets the estimate, and it contains the
\* interval the method gives for the same fit at any larger ci.
C12_DeltaIntervalNested ==
    (pc = "done" /\ Has("params_ci") /\ self["ci_method"] = "delta") =>
        \A p \in C12_Params :
            LET I == self["params_ci"][p]
                est == C12_Estimate(p)
            IN  /\ I = DeltaInterval(est, NormPpf(OneMinusHalf(self["ci"])), I[1].se)
                /\ \A se \in SqrtValues :
                      /\ BoundValue(I[1], se) <= 1000 * est
                      /\ 1000 * est <= BoundValue(I[2], se)
                      /\ \A ci2 \in C12_Levels :
                            LET J == CiDeltaAttrs([self EXCEPT !["ci"] = ci2])["params_ci"][p]
                            IN  RatLt(self["ci"], ci2) =>
                                    /\ BoundValue(I[1], se) <= BoundValue(J[1], se)
                                    /\ BoundValue(J[2], se) <= BoundValue(I[2], se)

\* A GEV fit with a non-zero shape has delta-method intervals at ci = 0.05 that
\* strictly contain those at ci = 0.1 when the standard error is positive.
C12_Witness ==
    /\ pc = "done"
    /\ Has("params_ci")
    /\ self["ci_method"] = "delta"
    /\ self["c"] # 0
    /\ self["ci"] = <<1, 20>>
    /\ LET I == self["params_ci"].shape
           J == CiDeltaAttrs([self EXCEPT !["ci"] = <<1, 10>>])["params_ci"].shape
       IN  /\ BoundValue(I[1], MaxSe) < BoundValue(J[1], MaxSe)
           /\ BoundValue(J[2], MaxSe) < BoundValue(I[2], MaxSe)

\* ================================================================ claims: return levels
\* C13: once the constructor has set them, return_values and return_periods have
\* the same length; for a non-empty sequence of return periods return_periods is
\* that sequence and return_values[i] is the inverse survival function of the
\* fitted distribution at frec / return_periods[i], in the order given; with
\* return_periods absent or empty both are empty.
C13_ReturnValuesAligned ==
    Has("return_values") =>
        LET given == args.return_periods
            nonempty == given[1] = "list" /\ given[2] # <<>>
        IN  /\ Len(self["return_values"]) = Len(self["return_periods"])
            /\ nonempty =>
                  /\ self["return_periods"] = given[2]
                  /\ \A i \in 1..Len(given[2]) :
                        self["return_values"][i] =
                            [isf |-> self["distr"], q |-> <<args.frec, given[2][i]>>]
            /\ ~nonempty =>
                  /\ self["return_periods"] = <<>>
                  /\ self["return_values"] = <<>>

\* A fit has been constructed for two return periods given in decreasing order
\* and two events per year.
C13_Witness ==
    /\ pc = "done"
    /\ args.return_periods = <<"list", <<10, 2>>>>
    /\ args.frec = 2
    /\ Len(self["return_values"]) = 2
    /\ self["return_values"][1].q = <<2, 10>>

\* C14: the return-level confidence bounds are those of the requested return
\* periods: with return periods and ci both given, the lower and upper arrays have
\* one entry per requested period, entry j being the bound of the return level of
\* period j; with no return periods requested there are no such arrays.
C14_BoundsAlignedWithReturnPeriods ==
    pc = "done" =>
        LET given == args.return_periods
            requested == given[1] = "list" /\ given[2] # <<>>
        IN  /\ (requested /\ Has("_ci_Td") /\ Has("_ci_Tu")) =>
                  /\ Len(self["_ci_Td"]) = Len(given[2])
                  /\ Len(self["_ci_Tu"]) = Len(given[2])
                  /\ self["ci_method"] = "delta" =>
                        \A j \in 1..Len(given[2]) :
                            /\ self["_ci_Td"][j].est = self["return_values"][j]
                            /\ self["_ci_Tu"][j].est = self["return_values"][j]
            /\ ~requested => (~Has("_ci_Td") /\ ~Has("_ci_Tu"))

\* ================================================================ claims: engineering estimators
\* C15: Harris1996, Lieblein and PPPLiterature raise at construction when data is
\* None, a scalar, empty or of a single observation: a constructor that has been
\* left was left by an exception unless the sample has at least 2 observations.
C15_FewerThanTwoRaises ==
    /\ pc = "done" => (args.data[1] = "list" /\ args.data[2] >= 2)
    /\ (pc = "raised" /\ (args.data[1] # "list" \/ args.data[2] < 2)) => raised # "none"

\* The Gumbel quantile at probability 1 - 1 / T: offset + slope * (-ln(-ln(1 - 1 / T))).
C16_Quantile(offset, slope, T) == [const |-> offset, coef |-> slope, T |-> T]

\* C16: for each of the three estimators and every preconditioning exponent p,
\* the fitted data are the data raised to p, and the table of return levels has
\* one entry for each T = 2, ..., 100, in increasing T, entry T being the fitted
\* Gumbel quantile at 1 - 1 / T raised to 1 / p; with p = 1 it is the quantile of
\* the reported distr.
C16_ReturnLevelTable ==
    (pc = "done" /\ ~IsNaN(self["results"]["slope"])) =>
        LET results == self["results"]
            p == args.preconditioning
            table == results["Values for return period from 2 to 100 years"]
        IN  /\ results["data"].exp = <<p, 1>>
            /\ DOMAIN table = 1..99
            /\ \A T \in 2..100 :
                  LET q == C16_Quantile(results["offset"], results["slope"], T)
                  IN  /\ p # 1 => table[T - 1] = [base |-> q, exp |-> <<1, p>>]
                      /\ p = 1 => /\ table[T - 1] = q
                                  /\ table[T - 1] =
                                         C16_Quantile(self["distr"].loc, self["distr"].scale, T)

\* A Harris1996 fit of squared data has been constructed; its first return level
\* is the square root of the quantile for T = 2.
C16_Witness ==
    /\ pc = "done"
    /\ args.cls = "Harris1996"
    /\ args.preconditioning = 2
    /\ self["N"] >= 2
    /\ self["results"]["alpha"] = <<2, 1>>
    /\ self["results"]["Values for return period from 2 to 100 years"][1] =
           [base |-> C16_Quantile(<<3, 2>>, <<1, 2>>, 2), exp |-> <<1, 2>>]

\* ================================================================ claims: Lieblein coefficients
\* C17: coeffs(16, 16) returns, for every index, the tabulated coefficients of
\* size 16: within the sum of index i the only term that survives is t = i, with
\* weight 1, so that the sum is 0 before that term and the tabulated value after.
C17_CoeffsReduceToTable ==
    (coeffs.n = 16 /\ coeffs.m = 16) =>
        /\ \A k \in 1..Len(coeffs.aip) :
              /\ coeffs.aip[k] = <<ai(16)[k], 1>>
              /\ coeffs.bip[k] = <<bi(16)[k], 1>>
        /\ coeffs.pc = "done" => (Len(coeffs.aip) = 16 /\ Len(coeffs.bip) = 16)
        /\ coeffs.i < 16 =>
              LET weight == (coeffs.i + 1) * 1
              IN  /\ coeffs.t <= coeffs.i => (coeffs.a = 0 /\ coeffs.b = 0)
                  /\ coeffs.t > coeffs.i =>
                        /\ coeffs.a = ai(16)[coeffs.i + 1] * weight
                        /\ coeffs.b = bi(16)[coeffs.i + 1] * weight

\* coeffs(16, 16) has returned its sixteen pairs.
C17_Witness ==
    /\ coeffs.pc = "done"
    /\ coeffs.n = 16
    /\ coeffs.m = 16
    /\ Len(coeffs.aip) = 16
    /\ coeffs.aip[16] = <<17653, 1>>
    /\ coeffs.bip[1] = <<0 - 262990, 1>>

\* ================================================================ claims: plotting positions
\* The fourteen names of the table.
C18_Names ==
    {"Weibull", "Hazen", "Blom", "Cunnane", "Gringorten", "Adamowski", "Beard",
     "Chegodayev", "Hirsch", "IEC56", "Landwehr", "Laplace", "McClung and Mears",
     "Tukey"}

\* The name _calculate_values was last given as how.
C18_Dispatched ==
    IF LaterCalls = <<>> THEN args.ppp ELSE LaterCalls[Len(LaterCalls)]

\* C18: PPPLiterature dispatches on exactly the fourteen names; each selects one
\* formula P(i, N), any two of which differ at some (i, N); a name outside the
\* table ends the constructor with an error, never with a fit, and the error for
\* a missing P comes from such a name only.
C18_Dispatch ==
    /\ Cardinality(C18_Names) = 14
    /\ {how \in PppArgs : PlottingPosition(how) # Unbound} = C18_Names
    /\ \A h1 \in C18_Names : \A h2 \in C18_Names \ {h1} :
          \E N \in 1..MaxData : \E i \in 1..N : P(h1, i, N) # P(h2, i, N)
    /\ args.cls = "PPPLiterature" =>
          /\ (pc = "done") =>
                /\ args.ppp \in C18_Names
                /\ \A i \in 1..self["N"] :
                      self["results"]["Y"][i].minusloglog = P(C18_Dispatched, i, self["N"])
          /\ (pc = "raised" /\ args.data[1] = "list" /\ args.ppp \notin C18_Names) =>
                (raised # "none" /\ caught = "UnboundLocalError" /\ ~Has("distr"))
          /\ caught = "UnboundLocalError" => args.ppp \notin C18_Names

\* A PPPLiterature fit with Tukey's positions has been constructed for three
\* observations: the first position is (1 - 1/3) / (3 + 1/3) = 1/5.
C18_Witness ==
    /\ pc = "done"
    /\ LaterCalls = <<>>
    /\ args.cls = "PPPLiterature"
    /\ args.ppp = "Tukey"
    /\ self["N"] = 3
    /\ self["results"]["Y"][1].minusloglog = <<1, 5>>

\* ================================================================ claims: error outcomes
\* The constructor was given a missing or malformed sample or an invalid option.
C19_Misconfigured ==
    \/ args.data[1] # "list"
    \/ args.data[2] < 2
    \/ (args.cls = "PPPLiterature" /\ args.ppp \notin C18_Names)

\* C19: a failure of the computation is never reported with the kind and message
\* of a configuration error: a constructor given a well-formed sample and valid
\* options is never left by the exception that reports missing data.
C19_FailuresDistinguishable ==
    (pc = "raised" /\ ~C19_Misconfigured) => raised # "Exception: You should provide some data."

\* Position of the first entry fn in calls, 0 if there is none.
C20_FirstCall(fn) ==
    IF Called(fn) THEN CHOOSE i \in 1..Len(calls) :
                           calls[i] = fn /\ \A j \in 1..(i - 1) : calls[j] # fn
    ELSE 0

\* C20: a GEV fit by MLE takes the L-moments estimate first and then runs BFGS;
\* when the optimizer has not reached a stationary point (warnflag 1 or 2) the
\* constructor is left by an error and no fitted model exists.
C20_NonConvergenceRaises ==
    (args.cls = "GEV" /\ args.fit_method = "mle") =>
        /\ Called("fmin_bfgs") =>
              (0 < C20_FirstCall("gev.lmom_fit")
                   /\ C20_FirstCall("gev.lmom_fit") < C20_FirstCall("fmin_bfgs"))
        /\ warnflag \in {1, 2} =>
              /\ ~Has("params")
              /\ ~Has("distr")
              /\ pc = "raised"

C22_SampleUntouched ==
    /\ (pc # "idle" /\ args # <<>> /\ "cls" \in DOMAIN args /\ args.cls \in {"GEV", "Gumbel"})
           => sample = SampleOf(args.n)
    /\ (pc # "idle" /\ args # <<>> /\ "cls" \in DOMAIN args /\ args.cls \in EngClasses
            /\ args.data[1] = "list")
           => sample = SampleOf(args.data[2])
    /\ bpc \notin {"idle"} => sample = bargs.data

C25_ShapeConvention ==
    (args # <<>> /\ args.cls = "GEV" /\ Has("params")) =>
        /\ self["c"] = self["params"].shape
        /\ self["distr"].c = self["params"].shape
        /\ (pc = "done" /\ Has("params_ci") /\ self["ci_method"] = "delta" /\ self["c"] # 0) =>
               /\ \A k \in 1..2 : self["params_ci"].shape[k].est = self["c"]
               /\ \A i \in 1..Len(self["_se"]) :
                      self["_se"][i].hessian.at = <<0 - self["c"], self["loc"], self["scale"]>>
        /\ (pc = "done" /\ Has("params_ci") /\ self["ci_method"] = "bootstrap") =>
               /\ self["params_ci"].shape = <<Out(nvals, 0, 0), Out(nvals, 1, 0)>>
               /\ bargs.statfunction.draw.c = self["c"]
               /\ bargs.statfunction.start[1] = self["c"]
\* A GEV fitted by maximum likelihood with shape -1 and delta-method intervals:
\* the Hessian was taken at shape 1.
C25_Witness ==
    /\ pc = "done"
    /\ args.cls = "GEV"
    /\ args.fit_method = "mle"
    /\ Has("params_ci")
    /\ self["ci_method"] = "delta"
    /\ self["params"].shape = 0 - 1
    /\ self["distr"].c = 0 - 1
    /\ self["_se"][1].hessian.at[1] = 1

\* C26: _nnlf chooses its expression from theta: (loc, scale) and (0, loc, scale)
\* evaluate the same Gumbel expression, (c, loc, scale) with c # 0 the GEV one;
\* and _ci_delta takes the Hessian of the three-parameter form, a 3 x 3 matrix,
\* exactly when the fitted shape is not zero, of the two-parameter form otherwise.
C26_NnlfForm ==
    Has("scale") =>
        LET c == self["c"]
            loc == self["loc"]
            scale == self["scale"]
        IN  /\ Nnlf(<<loc, scale>>) = [form |-> "gumbel", loc |-> loc, scale |-> scale]
            /\ Nnlf(<<0, loc, scale>>) = Nnlf(<<loc, scale>>)
            /\ c # 0 => Nnlf(<<0 - c, loc, scale>>) =
                            [form |-> "gev", c |-> 0 - c, loc |-> loc, scale |-> scale]
            /\ c = 0 => Nnlf(<<0 - c, loc, scale>>) = Nnlf(<<loc, scale>>)
            /\ (pc = "done" /\ Has("_se")) =>
                   /\ Len(self["_se"]) = (IF c # 0 THEN 3 ELSE 2)
                   /\ \A i \in 1..Len(self["_se"]) :
                          LET h == self["_se"][i].hessian
                          IN  /\ Len(h.at) = Len(self["_se"])
                              /\ h.f = Nnlf(h.at)
                              /\ h.f.form = (IF c # 0 THEN "gev" ELSE "gumbel")
\* A GEV whose fitted shape is 0: the delta method took the 2 x 2 Hessian of the
\* Gumbel form.
C26_Witness ==
    /\ pc = "done"
    /\ args.cls = "GEV"
    /\ Has("_se")
    /\ self["c"] = 0
    /\ Len(self["_se"]) = 2
    /\ self["_se"][1].hessian.f.form = "gumbel"

\* ================================================================ claims: engineering results
\* C27: a constructed Harris1996, Lieblein or PPPLiterature has ppp equal to the
\* name of its strategy, non-empty results, loc = results['offset'] and scale =
\* results['slope']; and for PPPLiterature, also after later calls of _ppp_<name>
\* methods, ppp names the formula the stored results were computed with.
C27_PppNamesResults ==
    (pc = "done" /\ args # <<>> /\ args.cls \in EngClasses) =>
        /\ self["ppp"] = args.ppp
        /\ self["results"] # <<>>
        /\ self["loc"] = self["results"]["offset"]
        /\ self["scale"] = self["results"]["slope"]
        /\ args.cls = "PPPLiterature" =>
               \A i \in 1..self["N"] :
                   self["results"]["Y"][i].minusloglog = P(self["ppp"], i, self["N"])

\* ================================================================ claims: plotting positions
\* Whether the positions p(1), ..., p(N) lie strictly between 0 and 1 and
\* strictly increase.
C28_Valid(p, N) ==
    \A i \in 1..N :
        /\ RatLt(Zero, p[i])
        /\ RatLt(p[i], One)
        /\ i < N => RatLt(p[i], p[i + 1])

\* The formulas themselves, for every N up to the first size beyond the tables.
C28_EveryFormula ==
    \A how \in PppNames : \A N \in 1..(TableMax + 1) :
        C28_Valid([i \in 1..N |-> P(how, i, N)], N)

C29_Weight(n, m, i, t) ==
    IF HypRaises(n, m, i, t) THEN Zero
    ELSE Reduce(<<t * Hyp(n, m, i, t)[1], i * Hyp(n, m, i, t)[2]>>)
RECURSIVE C29_RatSum(_)
C29_RatSum(x) == IF x = <<>> THEN Zero ELSE RatAdd(Head(x), C29_RatSum(Tail(x)))
\* For every t the weights of the sizes beyond the table sum to 1 over i.
C29_WeightsSumToOne ==
    \A n \in CoeffsSizes \ {TableMax} : \A t \in 1..TableMax :
        C29_RatSum([i \in 1..n |-> C29_Weight(n, TableMax, i, t)]) = One
\* The sum of the coefficients x, each a fraction whose denominator divides C,
\* as a numerator over C.
RECURSIVE C29_SumOver(_, _)
C29_SumOver(x, C) ==
    IF x = <<>> THEN 0
    ELSE Num(Head(x)) * (C \div Den(Head(x))) + C29_SumOver(Tail(x), C)

\* C29: for N > 16 and every t in 1..16 the weights (t / i) * hyp(N, 16, i, t),
\* summed over i = 1..N with the skipped terms left out, sum to 1; hence the
\* coefficients coeffs(N, 16) returns have the sums of the tabulated ones.
C29_CoefficientSumsKept ==
    /\ C29_WeightsSumToOne
    /\ (coeffs # <<>> /\ coeffs.pc = "done" /\ coeffs.n > coeffs.m) =>
           LET C == Binomial(coeffs.n, coeffs.m)
           IN  /\ \A i \in 1..coeffs.n :
                      C % Den(coeffs.aip[i]) = 0 /\ C % Den(coeffs.bip[i]) = 0
               /\ C29_SumOver(coeffs.aip, C) = C * SeqSum(ai(coeffs.m))
               /\ C29_SumOver(coeffs.bip, C) = C * SeqSum(bi(coeffs.m))
\* coeffs(17, 16) has returned: its 17 coefficients differ from the table's 16,
\* the first being 16/17 of the table's first.
C29_Witness ==
    /\ coeffs # <<>>
    /\ coeffs.pc = "done"
    /\ coeffs.n = TableMax + 1
    /\ Len(coeffs.aip) = TableMax + 1
    /\ coeffs.aip[1] = <<144271 * 16, 17>>
    /\ C29_SumOver(coeffs.aip, 17) = 17 * SeqSum(ai(TableMax))

\* ================================================================ claims: datasets
\* C30: a dataset container built with a number of field names different from
\* the number of data columns (1 for a one-dimensional array) raises a ValueError
\* and produces no container; with the same number, each field name maps to its
\* column in order and asarray() returns the data given.
C30_FieldsMatchColumns ==
    (args # <<>> /\ args \in DatasetArgs /\ pc \in {"raised", "done"}) =>
        IF Len(args.fields) # Cols(args.data)
        THEN /\ pc = "raised"
             /\ raised = "ValueError: The number of fields is not equal to the number of dimensions of the input."
             /\ self = <<>>
        ELSE /\ pc = "done"
             /\ Asarray(self) = args.data
             /\ DOMAIN self["fields"] = {args.fields[i] : i \in 1..Len(args.fields)}
             /\ \A i \in 1..Len(args.fields) :
                    self["fields"][args.fields[i]] =
                        (IF Cols(args.data) = 1 THEN args.data ELSE ColumnOf(args.data, i - 1))

====
